---- MODULE Spec2Model ----
(***************************************************************************)
(* Model of the video-analysis scheduling code of video.gacho:             *)
(*   - VideoAnalysisQueue      (src/src/lib/utils/rateLimitQueue.ts)       *)
(*   - checkRateLimit          (src/src/app/api/gemini/analyze-video)      *)
(*   - the page-level loop     (src/src/app/video-analyzer/page.tsx)       *)
(* Times are milliseconds, as returned by Date.now().  Timers and remote   *)
(* calls are discrete events: an event that is due is handled before the   *)
(* clock moves on, and the clock jumps to the next pending event.          *)
(***************************************************************************)
EXTENDS Integers, Sequences, FiniteSets, TLC

VARIABLES
  now,              \* Date.now()
  items,            \* state.items: pending QueueItems, head first
  isProcessing,     \* state.isProcessing
  isPaused,         \* state.isPaused
  rateLimitInfo,    \* state.rateLimitInfo
  statistics,       \* state.statistics
  processingTimer,  \* this.processingTimer (0 is null)
  rateLimitTimer,   \* this.rateLimitTimer  (0 is null)
  timers,           \* the timers armed with setTimeout and not yet fired or cleared
  inflight,         \* the processNext invocations awaiting their remote call
  results,          \* the results handed to the result callback, per item id
  nextId,           \* ids handed out to enqueued requests so far
  dispatchLog,      \* history: ids of the items popped by processNext, in order
  attempts,         \* history: per item id, the outcomes of its settled calls
  uploadedVideos,   \* page.tsx: ids of the uploaded videos
  processingQueue,  \* page.tsx: processingQueue.current
  processingTimeout,\* page.tsx: processingTimeout.current (0 is null)
  pageTimers,       \* page.tsx: the timers armed with setTimeout and not yet fired or cleared
  pageInflight,     \* page.tsx: the processNextVideo invocations awaiting fetch
  queueStatus,      \* page.tsx: the queueStatus state
  pageRateLimit,    \* page.tsx: the rateLimitInfo state
  analysisResults,  \* page.tsx: status of each entry of analysisResults ("none": no entry)
  retryCounts,      \* page.tsx: ids of the videos that carry the retryCount property
  isAnalyzing,      \* page.tsx: the isAnalyzing state
  startRateLimit,   \* page.tsx: the rateLimitInfo captured by startAnalysis's processNextVideo
  pageDispatchLog,  \* history: ids of the videos sent to the remote endpoint, in order
  pageQuiet,        \* history: "stopped"/"paused" since the latest stop/pause, else "no"
  rateLimitStore,   \* route.ts: the caller's RateLimitData (NoData when the store has no entry)
  lastCheck,        \* route.ts: the answer of the latest checkRateLimit call
  recorded,         \* history: the instants of the checks that were allowed, in order
  stoppedCalls,     \* history: ids of the items whose call was in flight at a stop
  commands,         \* history: start/pause/resume/stop calls made so far
  pauseRun,         \* history: pauseProcessing calls in a row just made (up to 2)
  storage,          \* localStorage[STORAGE_KEY]: the state written by saveToStorage
  lastProgress,     \* the QueueStatus last handed to the progress callback
  removed,          \* history: ids of the items given to removeFromQueue
  cleared,          \* history: clearQueue returned and nothing was enqueued or started since
  thrown,           \* the value caught after a failed call (the argument of classifyError)
  verdict,          \* what classifyError and isRetryableError make of it
  answer,           \* route.ts: the response of the latest POST
  reported          \* what the error helpers and the scheduler make of a RateLimitError

queueVars == <<items, isProcessing, isPaused, rateLimitInfo, statistics,
               processingTimer, rateLimitTimer, timers, inflight, results,
               nextId, dispatchLog, attempts, storage, lastProgress>>

histVars == <<stoppedCalls, commands, pauseRun, removed, cleared>>

InitHistory ==
  /\ stoppedCalls = {}
  /\ commands = 0
  /\ pauseRun = 0
  /\ removed = {}
  /\ cleared = FALSE

\* ------------------------------------------------------------------------
\* Bounds of the model
\* ------------------------------------------------------------------------
MaxItems == 3
MaxDispatch == 3
Ceilings == {1, 2}
MaxCommands == 3
MaxRecorded == 11

\* ------------------------------------------------------------------------
\* Program constants
\* ------------------------------------------------------------------------
MAX_RETRIES == 3
RETRY_BACKOFF_BASE == 2000
PROCESSING_DELAY == 6000
WINDOW_MS == 60000
RATE_LIMIT_PER_MINUTE == 10
RATE_LIMIT_WINDOW_MS == 60000
CLEANUP_INTERVAL_MS == 300000
DEFAULT_RATE_LIMIT_PER_MINUTE == 10

Ids == 1..MaxItems
NoItem == [id |-> 0, retryCount |-> 0]

Max(a, b) == IF a >= b THEN a ELSE b
Min(a, b) == IF a <= b THEN a ELSE b

RECURSIVE Pow2(_)
Pow2(n) == IF n <= 0 THEN 1 ELSE 2 * Pow2(n - 1)

\* ------------------------------------------------------------------------
\* Remote answers.  A message is the sequence of its words.
\* ------------------------------------------------------------------------
ToLowerWord(w) ==
  CASE w = "Rate" -> "rate"
    [] w = "Internal" -> "internal"
    [] w = "Failed" -> "failed"
    [] w = "Analysis" -> "analysis"
    [] w = "NetworkError" -> "networkerror"
    [] w = "API" -> "api"
    [] w = "Gemini" -> "gemini"
    [] w = "Video" -> "video"
    [] w = "Please" -> "please"
    [] OTHER -> w

ToLowerCase(msg) == [i \in 1..Len(msg) |-> ToLowerWord(msg[i])]

\* One word includes a keyword when it is the keyword or is listed as containing it.
WordIncludes(w, k) == w = k \/ (w = "networkerror" /\ k = "network")

\* String.prototype.includes for a phrase of keywords
Includes(msg, phrase) ==
  \E s \in 0..(Len(msg) - Len(phrase)) :
     \A j \in 1..Len(phrase) : WordIncludes(msg[s + j], phrase[j])

RetryableErrors ==
  { <<"network">>, <<"timeout">>, <<"rate", "limit">>, <<"temporary">>,
    <<"service", "unavailable">>, <<"internal", "server", "error">> }

isRetryableError(errorMessage) ==
  \E e \in RetryableErrors : Includes(ToLowerCase(errorMessage), e)

MsgRateLimit == <<"Rate", "limit", "exceeded">>
MsgAnalysis == <<"Failed", "to", "analyze", "video">>

MsgNetwork == <<"NetworkError", "when", "attempting", "to", "fetch", "resource">>

\* No rateLimitInfo in an answer
NoInfo == [remaining |-> -1, resetTime |-> -1, requestsInLastMinute |-> -1,
           maxRequestsPerMinute |-> -1]

\* An answer of the remote call: apiResponse.success, error.message (a
\* rejected fetch has the message of its exception) and rateLimitInfo, which
\* processVideoAnalysis takes as optional (line 268).  These carry none.
Outcomes ==
  { [ok |-> TRUE, msg |-> <<>>, rateLimitInfo |-> NoInfo],
    [ok |-> FALSE, msg |-> MsgNetwork, rateLimitInfo |-> NoInfo],
    [ok |-> FALSE, msg |-> MsgAnalysis, rateLimitInfo |-> NoInfo] }

\* How long a remote call takes
CallDurations == {1000}

\* ------------------------------------------------------------------------
\* VideoAnalysisQueue
\* ------------------------------------------------------------------------
\* initializeState with a window that is over at once
initializeStateNoWindow(max) ==
  [remaining |-> max, resetTime |-> now,
   requestsInLastMinute |-> 0, maxRequestsPerMinute |-> max]

initializeState(max) ==
  [remaining |-> max, resetTime |-> now + WINDOW_MS,
   requestsInLastMinute |-> 0, maxRequestsPerMinute |-> max]

NewTimerId(tms, pt, rt) ==
  CHOOSE n \in 1..(Cardinality(tms) + 3) :
     /\ n \notin {t.id : t \in tms} \cup {pt, rt}
     /\ \A m \in 1..(n - 1) : m \in {t.id : t \in tms} \cup {pt, rt}

Timer(id, kind, due, item) == [id |-> id, kind |-> kind, due |-> due, item |-> item]

\* clearTimers: the timers left armed
clearTimers(tms, pt, rt) == {t \in tms : t.id \notin {pt, rt}}

\* No QueueStatus handed to the progress callback yet
NoProgress ==
  [position |-> -1, estimatedWaitTime |-> 0, isProcessing |-> FALSE,
   isPaused |-> FALSE, totalInQueue |-> 0, completedCount |-> 0, errorCount |-> 0]

NoResults == [i \in Ids |-> [completed |-> 0, error |-> 0]]

\* getQueueStatus (lines 176-190)
getQueueStatus ==
  [position |-> IF isProcessing THEN Max(1, Len(items)) ELSE 0,
   estimatedWaitTime |-> Len(items) * (PROCESSING_DELAY \div 1000),
   isProcessing |-> isProcessing,
   isPaused |-> isPaused,
   totalInQueue |-> Len(items),
   completedCount |-> statistics.successCount,
   errorCount |-> statistics.errorCount]

\* saveToStorage: the state as JSON.stringify writes it (of a request only the
\* id matters here; the content of its File is not written)
serializedState ==
  [items |-> items, isProcessing |-> isProcessing, isPaused |-> isPaused,
   rateLimitInfo |-> rateLimitInfo, statistics |-> statistics]

\* The queue after construction.  The ceiling is the one of the restored or
\* default rateLimitInfo (constructor, lines 49-52).
InitQueue ==
  /\ items = <<>>
  /\ isProcessing = FALSE
  /\ isPaused = FALSE
  /\ \E c \in Ceilings : rateLimitInfo = initializeState(c)
  /\ statistics = [totalProcessed |-> 0, successCount |-> 0, errorCount |-> 0]
  /\ processingTimer = 0
  /\ rateLimitTimer = 0
  /\ timers = {}
  /\ inflight = {}
  /\ results = NoResults
  /\ nextId = 1
  /\ dispatchLog = <<>>
  /\ attempts = [i \in Ids |-> <<>>]
  /\ storage = serializedState
  /\ lastProgress = NoProgress

\* The loop kept going on an empty list
queueDrainedNever(its, proc) == FALSE

\* line 203: the list is empty and the queue is processing
queueDrained(its, proc) == its = <<>> /\ proc

\* The wait taken as over
waitTimeNone(rl) == 0

\* line 212
waitTime(rl) == rl.resetTime - now

\* processNext up to its await, entered with the flags, timers and handles the
\* caller leaves behind: sv is what the caller saved, nt what it notified.
processNext(its, proc, paused, tms, pt, rt, sv, nt) ==
  IF ~proc \/ paused \/ its = <<>>
  THEN /\ IF queueDrained(its, proc)
          THEN \* stopProcessing
               /\ isProcessing' = FALSE
               /\ isPaused' = FALSE
               /\ timers' = clearTimers(tms, pt, rt)
               /\ processingTimer' = 0
               /\ rateLimitTimer' = 0
               /\ storage' = [serializedState EXCEPT !.isProcessing = FALSE,
                                                     !.isPaused = FALSE]
               /\ lastProgress' = [getQueueStatus EXCEPT !.isProcessing = FALSE,
                                                         !.isPaused = FALSE,
                                                         !.position = 0]
          ELSE /\ isProcessing' = proc
               /\ isPaused' = paused
               /\ timers' = tms
               /\ processingTimer' = pt
               /\ rateLimitTimer' = rt
               /\ storage' = sv
               /\ lastProgress' = nt
       /\ items' = its
       /\ UNCHANGED <<rateLimitInfo, inflight, dispatchLog>>
  ELSE IF rateLimitInfo.remaining <= 0 /\ waitTime(rateLimitInfo) > 0
  THEN /\ rateLimitTimer' = NewTimerId(tms, pt, rt)
       /\ timers' = tms \cup {Timer(NewTimerId(tms, pt, rt), "rateLimit",
                                    now + waitTime(rateLimitInfo), NoItem)}
       /\ isProcessing' = proc
       /\ isPaused' = paused
       /\ processingTimer' = pt
       /\ storage' = sv
       /\ lastProgress' = nt
       /\ items' = its
       /\ UNCHANGED <<rateLimitInfo, inflight, dispatchLog>>
  ELSE /\ Len(dispatchLog) < MaxDispatch
       /\ rateLimitInfo' =
            IF rateLimitInfo.remaining <= 0
            THEN [rateLimitInfo EXCEPT
                    !.remaining = rateLimitInfo.maxRequestsPerMinute,
                    !.resetTime = now + WINDOW_MS,
                    !.requestsInLastMinute = 0]
            ELSE rateLimitInfo
       /\ items' = Tail(its)
       /\ \E d \in CallDurations :
            inflight' = inflight \cup {[item |-> Head(its), doneAt |-> now + d]}
       /\ dispatchLog' = Append(dispatchLog, Head(its).id)
       /\ isProcessing' = proc
       /\ isPaused' = paused
       /\ timers' = tms
       /\ processingTimer' = pt
       /\ rateLimitTimer' = rt
       /\ storage' = sv
       /\ lastProgress' = nt

\* addToQueue with the item put at the head
addToQueueAtHead ==
  /\ nextId <= MaxItems
  /\ items' = <<[id |-> nextId, retryCount |-> 0]>> \o items
  /\ nextId' = nextId + 1
  /\ pauseRun' = 0
  /\ UNCHANGED <<commands, stoppedCalls, removed>> /\ cleared' = FALSE
  /\ UNCHANGED <<now, isProcessing, isPaused, rateLimitInfo, statistics,
                 processingTimer, rateLimitTimer, timers, inflight, results,
                 dispatchLog, attempts>>
  /\ storage' = serializedState'
  /\ lastProgress' = getQueueStatus'

\* addMultipleToQueue(requests), for two or more new requests
addMultipleToQueue ==
  \E n \in 2..MaxItems :
     /\ nextId + n - 1 <= MaxItems
     /\ items' = items \o [k \in 1..n |-> [id |-> nextId + k - 1, retryCount |-> 0]]
     /\ nextId' = nextId + n
     /\ pauseRun' = 0
     /\ UNCHANGED <<commands, stoppedCalls, removed>> /\ cleared' = FALSE
     /\ UNCHANGED <<now, isProcessing, isPaused, rateLimitInfo, statistics,
                    processingTimer, rateLimitTimer, timers, inflight, results,
                    dispatchLog, attempts>>
     /\ storage' = serializedState'
     /\ lastProgress' = getQueueStatus'

addToQueue ==
  /\ nextId <= MaxItems
  /\ items' = Append(items, [id |-> nextId, retryCount |-> 0])
  /\ nextId' = nextId + 1
  /\ pauseRun' = 0
  /\ UNCHANGED <<commands, stoppedCalls, removed>> /\ cleared' = FALSE
  /\ UNCHANGED <<now, isProcessing, isPaused, rateLimitInfo, statistics,
                 processingTimer, rateLimitTimer, timers, inflight, results,
                 dispatchLog, attempts>>
  /\ storage' = serializedState'
  /\ lastProgress' = getQueueStatus'

startProcessing ==
  /\ commands < MaxCommands
  /\ commands' = commands + 1
  /\ UNCHANGED <<stoppedCalls, removed>> /\ cleared' = FALSE
  /\ ~isProcessing
  /\ processNext(items, TRUE, FALSE, timers, processingTimer, rateLimitTimer,
                 [serializedState EXCEPT !.isProcessing = TRUE, !.isPaused = FALSE],
                 [getQueueStatus EXCEPT !.isProcessing = TRUE, !.isPaused = FALSE,
                                        !.position = Max(1, Len(items))])
  /\ pauseRun' = 0
  /\ UNCHANGED <<now, statistics, results, nextId, attempts>>

\* startProcessing on a queue that is processing returns at once
startProcessingNoop ==
  /\ commands < MaxCommands
  /\ commands' = commands + 1
  /\ UNCHANGED <<stoppedCalls, removed, cleared>>
  /\ isProcessing
  /\ pauseRun' = 0
  /\ UNCHANGED <<now, queueVars>>

\* pauseProcessing with the flag toggled instead of set
pauseProcessingToggle ==
  /\ commands < MaxCommands
  /\ commands' = commands + 1
  /\ isPaused' = ~isPaused
  /\ timers' = clearTimers(timers, processingTimer, rateLimitTimer)
  /\ processingTimer' = 0
  /\ rateLimitTimer' = 0
  /\ pauseRun' = Min(2, pauseRun + 1)
  /\ UNCHANGED <<stoppedCalls, removed, cleared>>
  /\ UNCHANGED <<now, items, isProcessing, rateLimitInfo, statistics, inflight,
                 results, nextId, dispatchLog, attempts>>
  /\ storage' = serializedState'
  /\ lastProgress' = getQueueStatus'

pauseProcessing ==
  /\ commands < MaxCommands
  /\ commands' = commands + 1
  /\ isPaused' = TRUE
  /\ timers' = clearTimers(timers, processingTimer, rateLimitTimer)
  /\ processingTimer' = 0
  /\ rateLimitTimer' = 0
  /\ pauseRun' = Min(2, pauseRun + 1)
  /\ UNCHANGED <<stoppedCalls, removed, cleared>>
  /\ UNCHANGED <<now, items, isProcessing, rateLimitInfo, statistics, inflight,
                 results, nextId, dispatchLog, attempts>>
  /\ storage' = serializedState'
  /\ lastProgress' = getQueueStatus'

resumeProcessing ==
  /\ commands < MaxCommands
  /\ commands' = commands + 1
  /\ UNCHANGED <<stoppedCalls, removed, cleared>>
  /\ isProcessing
  /\ processNext(items, isProcessing, FALSE, timers, processingTimer, rateLimitTimer,
                 [serializedState EXCEPT !.isPaused = FALSE],
                 [getQueueStatus EXCEPT !.isPaused = FALSE])
  /\ pauseRun' = 0
  /\ UNCHANGED <<now, statistics, results, nextId, attempts>>

stopProcessing ==
  /\ commands < MaxCommands
  /\ commands' = commands + 1
  /\ isProcessing' = FALSE
  /\ isPaused' = FALSE
  /\ timers' = clearTimers(timers, processingTimer, rateLimitTimer)
  /\ processingTimer' = 0
  /\ rateLimitTimer' = 0
  /\ pauseRun' = 0
  /\ stoppedCalls' = {c.item.id : c \in inflight}
  /\ UNCHANGED <<removed, cleared>>
  /\ UNCHANGED <<now, items, rateLimitInfo, statistics, inflight, results,
                 nextId, dispatchLog, attempts>>
  /\ storage' = serializedState'
  /\ lastProgress' = getQueueStatus'

\* resetStatistics with totalProcessed left as it is
resetStatisticsCounts ==
  [statistics EXCEPT !.successCount = 0, !.errorCount = 0]

resetStatistics ==
  [totalProcessed |-> 0, successCount |-> 0, errorCount |-> 0]

clearQueue ==
  /\ commands < MaxCommands
  /\ commands' = commands + 1
  \* stopProcessing
  /\ isProcessing' = FALSE
  /\ isPaused' = FALSE
  /\ timers' = clearTimers(timers, processingTimer, rateLimitTimer)
  /\ processingTimer' = 0
  /\ rateLimitTimer' = 0
  /\ stoppedCalls' = {c.item.id : c \in inflight}
  /\ items' = <<>>
  /\ statistics' = resetStatistics
  /\ cleared' = TRUE
  /\ pauseRun' = 0
  /\ UNCHANGED removed
  /\ UNCHANGED <<now, rateLimitInfo, inflight, results, nextId, dispatchLog, attempts>>
  /\ storage' = serializedState'
  /\ lastProgress' = getQueueStatus'

resumeProcessingNoop ==
  /\ commands < MaxCommands
  /\ commands' = commands + 1
  /\ UNCHANGED <<stoppedCalls, removed, cleared>>
  /\ ~isProcessing
  /\ pauseRun' = 0
  /\ UNCHANGED <<now, queueVars>>

\* A retry granted whatever the number of attempts
willRetryAlways(item, o) == isRetryableError(o.msg)

\* handleProcessingError: TRUE when the item is given back to the queue
willRetry(item, o) ==
  isRetryableError(o.msg) /\ item.retryCount + 1 < MAX_RETRIES

\* A backoff that outlasts PROCESSING_DELAY
backoffDelayLong(retryCount) == RETRY_BACKOFF_BASE * Pow2(retryCount + 1)

\* A backoff that does not grow
backoffDelayFlat(retryCount) == RETRY_BACKOFF_BASE

backoffDelay(retryCount) == RETRY_BACKOFF_BASE * Pow2(retryCount - 1)

\* The local update with the count let below zero
localDecrementUnclamped(rl) ==
  [rl EXCEPT !.remaining = rl.remaining - 1, !.requestsInLastMinute = @ + 1]

\* The local update after a success (lines 239-240)
localDecrement(rl) ==
  [rl EXCEPT !.remaining = Max(0, rl.remaining - 1), !.requestsInLastMinute = @ + 1]

\* The timers armed once handleProcessingError has handled the outcome o of
\* a call for item, with the item put back on every failure
scheduleRetryAlways(tms, id, item, o) ==
  IF ~o.ok
  THEN tms \cup {Timer(id, "backoff", now + backoffDelay(item.retryCount + 1),
                       [item EXCEPT !.retryCount = item.retryCount + 1])}
  ELSE tms

\* The timers armed once handleProcessingError has handled the outcome o of
\* a call for item (lines 301-310: the untracked backoff timer)
scheduleRetry(tms, id, item, o) ==
  IF ~o.ok /\ willRetry(item, o)
  THEN tms \cup {Timer(id, "backoff", now + backoffDelay(item.retryCount + 1),
                       [item EXCEPT !.retryCount = item.retryCount + 1])}
  ELSE tms

OutcomeKind(o) ==
  IF o.ok THEN "ok" ELSE IF isRetryableError(o.msg) THEN "retryable" ELSE "terminal"

\* The continuation of processNext after its await (lines 231-252)
settle(call, o) ==
  LET item == call.item
      \* processVideoAnalysis, lines 267-271
      rl == IF o.rateLimitInfo # NoInfo THEN o.rateLimitInfo ELSE rateLimitInfo
      backoffId == NewTimerId(timers, processingTimer, rateLimitTimer)
      tms1 == scheduleRetry(timers, backoffId, item, o)
      procId == NewTimerId(tms1, processingTimer, rateLimitTimer)
  IN
  /\ call \in inflight
  /\ call.doneAt <= now
  /\ inflight' = inflight \ {call}
  /\ attempts' = [attempts EXCEPT ![item.id] = Append(@, OutcomeKind(o))]
  /\ stoppedCalls' = stoppedCalls \ {item.id}
  /\ UNCHANGED <<removed, cleared>>
  /\ IF o.ok
     THEN /\ statistics' = [statistics EXCEPT !.successCount = @ + 1,
                                               !.totalProcessed = @ + 1]
          /\ rateLimitInfo' = localDecrement(rl)
          /\ results' = [results EXCEPT ![item.id].completed = @ + 1]
     ELSE /\ rateLimitInfo' = rl
          /\ IF willRetry(item, o)
             THEN UNCHANGED <<statistics, results>>
             ELSE /\ statistics' = [statistics EXCEPT !.errorCount = @ + 1,
                                                      !.totalProcessed = @ + 1]
                  /\ results' = [results EXCEPT ![item.id].error = @ + 1]
  /\ timers' = tms1 \cup {Timer(procId, "processing", now + PROCESSING_DELAY, NoItem)}
  /\ processingTimer' = procId
  /\ pauseRun' = 0
  /\ UNCHANGED commands
  /\ UNCHANGED <<now, items, isProcessing, isPaused, rateLimitTimer, nextId, dispatchLog>>
  /\ storage' = serializedState'
  /\ lastProgress' = getQueueStatus'

\* removeFromQueue(requestId), for the id of a request enqueued earlier
removeFromQueue(requestId) ==
  /\ commands < MaxCommands
  /\ commands' = commands + 1
  /\ requestId \in 1..(nextId - 1)
  /\ items' = SelectSeq(items, LAMBDA item : item.id # requestId)
  /\ removed' = removed \cup {requestId}
  /\ UNCHANGED cleared
  /\ pauseRun' = 0
  /\ UNCHANGED stoppedCalls
  /\ UNCHANGED <<now, isProcessing, isPaused, rateLimitInfo, statistics,
                 processingTimer, rateLimitTimer, timers, inflight, results,
                 nextId, dispatchLog, attempts>>
  /\ storage' = serializedState'
  /\ lastProgress' = getQueueStatus'

\* retryFailedItem(requestId): the item is looked up in the pending list
retryFailedItem(requestId) ==
  LET found == \E k \in 1..Len(items) : items[k].id = requestId
      reset == [k \in 1..Len(items) |->
                  IF items[k].id = requestId
                  THEN [items[k] EXCEPT !.retryCount = 0] ELSE items[k]]
  IN
  /\ commands < MaxCommands
  /\ commands' = commands + 1
  /\ requestId \in 1..(nextId - 1)
  /\ pauseRun' = 0
  /\ UNCHANGED <<stoppedCalls, removed, cleared>>
  /\ IF found /\ ~isProcessing
     THEN \* startProcessing
          processNext(reset, TRUE, FALSE, timers, processingTimer, rateLimitTimer,
                      [serializedState EXCEPT !.items = reset, !.isProcessing = TRUE,
                                              !.isPaused = FALSE],
                      [getQueueStatus EXCEPT !.isProcessing = TRUE, !.isPaused = FALSE,
                                             !.position = Max(1, Len(items))])
     ELSE /\ items' = reset
          /\ UNCHANGED <<isProcessing, isPaused, rateLimitInfo, timers, processingTimer,
                         rateLimitTimer, inflight, dispatchLog, storage, lastProgress>>
  /\ UNCHANGED <<now, statistics, results, nextId, attempts>>

\* Nothing under STORAGE_KEY in localStorage
NoStored == [items |-> <<>>, isProcessing |-> FALSE, isPaused |-> FALSE,
             rateLimitInfo |-> [remaining |-> -1, resetTime |-> -1,
                                requestsInLastMinute |-> -1,
                                maxRequestsPerMinute |-> -1],
             statistics |-> [totalProcessed |-> -1, successCount |-> -1,
                             errorCount |-> -1]]

\* loadFromStorage restoring nothing
restoreNothing(stored, fresh) == fresh

\* loadFromStorage, lines 419-425: what is taken from the parsed state; the
\* items are not restored
restore(stored, fresh) ==
  IF stored # NoStored
  THEN [rateLimitInfo |-> stored.rateLimitInfo, statistics |-> stored.statistics]
  ELSE fresh

\* The page is loaded again: the old instance goes with its timers and pending
\* calls, and the constructor of the new one (lines 49-52) runs
\* initializeState and then loadFromStorage (lines 411-433).
loadFromStorage ==
  /\ commands < MaxCommands
  /\ commands' = commands + 1
  /\ items' = <<>>
  /\ isProcessing' = FALSE
  /\ isPaused' = FALSE
  /\ LET fresh == [rateLimitInfo |-> initializeState(DEFAULT_RATE_LIMIT_PER_MINUTE),
                   statistics |-> [totalProcessed |-> 0, successCount |-> 0,
                                   errorCount |-> 0]]
     IN /\ rateLimitInfo' = restore(storage, fresh).rateLimitInfo
        /\ statistics' = restore(storage, fresh).statistics
  /\ processingTimer' = 0
  /\ rateLimitTimer' = 0
  /\ timers' = {}
  /\ inflight' = {}
  /\ lastProgress' = NoProgress
  /\ stoppedCalls' = {}
  /\ UNCHANGED <<removed, cleared>>
  /\ pauseRun' = 0
  /\ UNCHANGED <<now, results, nextId, dispatchLog, attempts, storage>>

\* A dispatch or rate-limit timer fires: its callback is processNext
fireProcessNext(t) ==
  /\ t \in timers
  /\ t.kind \in {"processing", "rateLimit"}
  /\ t.due <= now
  /\ processNext(items, isProcessing, isPaused, timers \ {t}, processingTimer, rateLimitTimer,
                 storage, lastProgress)
  /\ pauseRun' = 0
  /\ UNCHANGED <<commands, stoppedCalls, removed, cleared>>
  /\ UNCHANGED <<now, statistics, results, nextId, attempts>>

\* A backoff timer fires (lines 305-309): the item goes back to the front
fireBackoff(t) ==
  /\ t \in timers
  /\ t.kind = "backoff"
  /\ t.due <= now
  /\ items' = <<t.item>> \o items
  /\ timers' = timers \ {t}
  /\ pauseRun' = 0
  /\ UNCHANGED <<commands, stoppedCalls, removed, cleared>>
  /\ UNCHANGED <<now, isProcessing, isPaused, rateLimitInfo, statistics,
                 processingTimer, rateLimitTimer, inflight, results, nextId,
                 dispatchLog, attempts>>
  /\ storage' = serializedState'
  /\ lastProgress' = getQueueStatus'

\* The instants at which something is due
Dues == {t.due : t \in timers} \cup {c.doneAt : c \in inflight}

\* The clock moves to the next pending event once nothing is due
Tick ==
  /\ Dues # {}
  /\ \A d \in Dues : d > now
  /\ now' = CHOOSE d \in Dues : \A e \in Dues : d <= e
  /\ pauseRun' = 0
  /\ UNCHANGED <<commands, stoppedCalls, removed, cleared>>
  /\ UNCHANGED queueVars

\* How long the user leaves the page alone
IdleTime == 90000

\* Time passes with no timer armed and no call in flight
idle ==
  /\ Dues = {}
  /\ commands < MaxCommands
  /\ commands' = commands + 1
  /\ now' = now + IdleTime
  /\ pauseRun' = 0
  /\ UNCHANGED <<stoppedCalls, removed, cleared>>
  /\ UNCHANGED queueVars

\* ------------------------------------------------------------------------
\* checkRateLimit (the server's limiter), for one caller key
\* ------------------------------------------------------------------------
limVars == <<rateLimitStore, lastCheck, recorded>>

NoData == [count |-> -1, resetTime |-> 0, requests |-> <<>>]
NoCheck == [at |-> -1, allowed |-> FALSE, remaining |-> 0, resetTime |-> 0,
            requestsInLastMinute |-> 0, retryAfter |-> -1]

\* The instants at which the server is called
Instants == {0, 500, 30000, 60000, 60500, 400000}

InitLimiter ==
  /\ rateLimitStore = NoData
  /\ lastCheck = NoCheck
  /\ recorded = <<>>

RECURSIVE filterRequestsInclusive(_, _)
\* The filter with the comparison made inclusive
filterRequestsInclusive(requests, oneMinuteAgo) ==
  IF requests = <<>> THEN <<>>
  ELSE IF Head(requests) >= oneMinuteAgo
       THEN <<Head(requests)>> \o filterRequestsInclusive(Tail(requests), oneMinuteAgo)
       ELSE filterRequestsInclusive(Tail(requests), oneMinuteAgo)

RECURSIVE filterRequests(_, _)
\* requests.filter(req => req.timestamp > oneMinuteAgo)
filterRequests(requests, oneMinuteAgo) ==
  IF requests = <<>> THEN <<>>
  ELSE IF Head(requests) > oneMinuteAgo
       THEN <<Head(requests)>> \o filterRequests(Tail(requests), oneMinuteAgo)
       ELSE filterRequests(Tail(requests), oneMinuteAgo)

\* The seconds rounded down
FloorSeconds(ms) == ms \div 1000

\* Math.ceil(ms / 1000)
CeilSeconds(ms) == (ms + 999) \div 1000

\* The record kept after a denied call, with the call counted as a request
deniedRequestsCounted(requests) == Append(requests, now)

\* The record kept after a denied call: the pruned timestamps (line 104)
deniedRequests(requests) == requests

checkRateLimit ==
  LET limitData == IF rateLimitStore = NoData
                   THEN [count |-> 0, resetTime |-> now + RATE_LIMIT_WINDOW_MS,
                         requests |-> <<>>]
                   ELSE rateLimitStore
      oneMinuteAgo == now - RATE_LIMIT_WINDOW_MS
      requests == filterRequests(limitData.requests, oneMinuteAgo)
      count == Len(requests)
      resetTime == IF now > limitData.resetTime
                   THEN now + RATE_LIMIT_WINDOW_MS ELSE limitData.resetTime
  IN
  IF count >= RATE_LIMIT_PER_MINUTE
  THEN /\ rateLimitStore' = [count |-> count, resetTime |-> resetTime,
                             requests |-> deniedRequests(requests)]
       /\ lastCheck' = [at |-> now, allowed |-> FALSE, remaining |-> 0,
                        resetTime |-> resetTime, requestsInLastMinute |-> count,
                        retryAfter |->
                          IF requests # <<>>
                          THEN CeilSeconds(requests[1] + RATE_LIMIT_WINDOW_MS - now)
                          ELSE 60]
       /\ UNCHANGED recorded
  ELSE /\ Len(recorded) < MaxRecorded
       /\ rateLimitStore' = [count |-> count + 1, resetTime |-> resetTime,
                             requests |-> Append(requests, now)]
       /\ lastCheck' = [at |-> now, allowed |-> TRUE,
                        remaining |-> RATE_LIMIT_PER_MINUTE - (count + 1),
                        resetTime |-> resetTime,
                        requestsInLastMinute |-> count + 1, retryAfter |-> -1]
       /\ recorded' = Append(recorded, now)

\* The periodic cleanup of the store (lines 25-32)
cleanupStore ==
  /\ rateLimitStore # NoData
  /\ now > rateLimitStore.resetTime + CLEANUP_INTERVAL_MS
  /\ rateLimitStore' = NoData
  /\ UNCHANGED <<lastCheck, recorded>>

\* Time passes on the server
LimiterTick ==
  /\ \E t \in Instants : t > now /\ now' = t
  /\ UNCHANGED limVars

\* ------------------------------------------------------------------------
\* The page-level loop (page.tsx)
\* ------------------------------------------------------------------------
pageVars == <<uploadedVideos, processingQueue, processingTimeout, pageTimers,
              pageInflight, queueStatus, pageRateLimit, analysisResults,
              retryCounts, isAnalyzing, startRateLimit, pageDispatchLog, pageQuiet>>

MsgNetworkLost == <<"The", "network", "connection", "was", "lost">>

\* What fetch and the endpoint can answer: a 200 answer, a 429 answer with its
\* retryAfter, another error answer, or a rejected fetch
PageOutcomes ==
  { [kind |-> "ok", msg |-> <<>>, retryAfter |-> 0],
    [kind |-> "429", msg |-> MsgRateLimit, retryAfter |-> 60],
    [kind |-> "error", msg |-> MsgAnalysis, retryAfter |-> 0],
    [kind |-> "throw", msg |-> MsgNetworkLost, retryAfter |-> 0] }

InitPage ==
  /\ uploadedVideos = <<>>
  /\ processingQueue = <<>>
  /\ processingTimeout = 0
  /\ pageTimers = {}
  /\ pageInflight = {}
  /\ queueStatus = [position |-> 0, isProcessing |-> FALSE, isPaused |-> FALSE,
                    totalInQueue |-> 0, completedCount |-> 0, errorCount |-> 0]
  /\ pageRateLimit = rateLimitInfo
  /\ analysisResults = [i \in Ids |-> "none"]
  /\ retryCounts = {}
  /\ isAnalyzing = FALSE
  /\ startRateLimit = pageRateLimit
  /\ pageDispatchLog = <<>>
  /\ pageQuiet = "no"

PageTimer(id, due, rl) == [id |-> id, due |-> due, rl |-> rl]

\* setAnalysisResults(prev => prev.map(...)): only an existing entry changes
setResult(res, id, status) ==
  IF res[id] = "none" THEN res ELSE [res EXCEPT ![id] = status]

\* handleVideosChange: the upload widget reports the uploaded videos
handleVideosChange ==
  /\ ~isAnalyzing
  /\ uploadedVideos = <<>>
  /\ \E n \in 1..MaxItems : uploadedVideos' = [i \in 1..n |-> i]
  /\ startRateLimit' = pageRateLimit
  /\ UNCHANGED <<processingQueue, processingTimeout, pageTimers, pageInflight,
                 queueStatus, pageRateLimit, analysisResults, retryCounts,
                 isAnalyzing, pageDispatchLog, pageQuiet, commands>>

\* processNextVideo up to its await, run by a callback that captured the
\* rateLimitInfo rl, entered with what the caller leaves behind
processNextVideo(rl, q, tms, pt, st, an, res) ==
  IF q = <<>>
  THEN /\ queueStatus' = [st EXCEPT !.isProcessing = FALSE, !.position = 0]
       /\ isAnalyzing' = FALSE
       /\ processingQueue' = q
       /\ pageTimers' = tms
       /\ processingTimeout' = pt
       /\ analysisResults' = res
       /\ UNCHANGED <<pageInflight, pageRateLimit, pageDispatchLog>>
  ELSE IF rl.remaining <= 0 /\ rl.resetTime - now > 0
  THEN /\ processingTimeout' = NewTimerId(tms, pt, 0)
       /\ pageTimers' = tms \cup {PageTimer(NewTimerId(tms, pt, 0), rl.resetTime, rl)}
       /\ queueStatus' = st
       /\ isAnalyzing' = an
       /\ processingQueue' = q
       /\ analysisResults' = res
       /\ UNCHANGED <<pageInflight, pageRateLimit, pageDispatchLog>>
  ELSE /\ Len(pageDispatchLog) < MaxDispatch
       /\ pageRateLimit' =
            IF rl.remaining <= 0
            THEN [pageRateLimit EXCEPT
                    !.remaining = pageRateLimit.maxRequestsPerMinute,
                    !.resetTime = now + WINDOW_MS,
                    !.requestsInLastMinute = 0]
            ELSE pageRateLimit
       /\ processingQueue' = Tail(q)
       /\ analysisResults' = setResult(res, Head(q), "processing")
       /\ queueStatus' = [st EXCEPT !.position = Len(q) - 1]
       /\ \E d \in CallDurations :
            pageInflight' = pageInflight \cup
                              {[id |-> Head(q), doneAt |-> now + d, rl |-> rl]}
       /\ pageDispatchLog' = Append(pageDispatchLog, Head(q))
       /\ isAnalyzing' = an
       /\ pageTimers' = tms
       /\ processingTimeout' = pt

\* startAnalysis (the Analyze button is disabled while isAnalyzing)
startAnalysis ==
  /\ commands < MaxCommands
  /\ commands' = commands + 1
  /\ ~isAnalyzing
  /\ uploadedVideos # <<>>
  /\ pageQuiet' = "no"
  /\ processNextVideo(startRateLimit, uploadedVideos, pageTimers, processingTimeout,
                      [position |-> Len(uploadedVideos), isProcessing |-> TRUE,
                       isPaused |-> FALSE, totalInQueue |-> Len(uploadedVideos),
                       completedCount |-> 0, errorCount |-> 0],
                      TRUE,
                      [i \in Ids |-> IF i <= Len(uploadedVideos) THEN "pending" ELSE "none"])
  /\ UNCHANGED <<uploadedVideos, retryCounts, startRateLimit>>

\* pauseProcessing (the Pause button shows while processing and not paused)
pagePauseProcessing ==
  /\ commands < MaxCommands
  /\ commands' = commands + 1
  /\ isAnalyzing \/ \E i \in Ids : analysisResults[i] # "none"
  /\ queueStatus.isProcessing /\ ~queueStatus.isPaused
  /\ pageTimers' = {t \in pageTimers : t.id # processingTimeout}
  /\ processingTimeout' = 0
  /\ queueStatus' = [queueStatus EXCEPT !.isPaused = TRUE]
  /\ pageQuiet' = "paused"
  /\ UNCHANGED <<uploadedVideos, processingQueue, pageInflight, pageRateLimit,
                 analysisResults, retryCounts, isAnalyzing, startRateLimit,
                 pageDispatchLog>>

\* resumeProcessing (the Resume/Start Queue button shows otherwise, enabled
\* unless totalInQueue or the remaining quota is 0)
pageResumeProcessing ==
  /\ commands < MaxCommands
  /\ commands' = commands + 1
  /\ isAnalyzing \/ \E i \in Ids : analysisResults[i] # "none"
  /\ ~(queueStatus.isProcessing /\ ~queueStatus.isPaused)
  /\ queueStatus.totalInQueue # 0 /\ pageRateLimit.remaining # 0
  /\ pageQuiet' = "no"
  /\ processNextVideo(pageRateLimit, processingQueue, pageTimers, processingTimeout,
                      [queueStatus EXCEPT !.isPaused = FALSE], isAnalyzing,
                      analysisResults)
  /\ UNCHANGED <<uploadedVideos, retryCounts, startRateLimit>>

\* stopProcessing (the Stop button is enabled while processing or paused)
pageStopProcessing ==
  /\ commands < MaxCommands
  /\ commands' = commands + 1
  /\ isAnalyzing \/ \E i \in Ids : analysisResults[i] # "none"
  /\ queueStatus.isProcessing \/ queueStatus.isPaused
  /\ pageTimers' = {t \in pageTimers : t.id # processingTimeout}
  /\ processingTimeout' = 0
  /\ processingQueue' = <<>>
  /\ queueStatus' = [queueStatus EXCEPT !.isProcessing = FALSE, !.isPaused = FALSE,
                                        !.position = 0]
  /\ isAnalyzing' = FALSE
  /\ pageQuiet' = "stopped"
  /\ UNCHANGED <<uploadedVideos, pageInflight, pageRateLimit, analysisResults,
                 retryCounts, startRateLimit, pageDispatchLog>>

\* catch block, lines 427-436: AbortError, or a message that includes
\* 'network' or 'timeout'
shouldRetry(o) ==
  Includes(o.msg, <<"network">>) \/ Includes(o.msg, <<"timeout">>)

\* The delay before the next processNextVideo (lines 466-468)
nextDelay(rl) ==
  IF rl.remaining > 0 THEN Max(1000, 60000 \div rl.maxRequestsPerMinute) ELSE 60000

\* Where a video whose call failed retryably goes back into processingQueue
requeue(q, id) == Append(q, id)

\* The continuation of processNextVideo after its await (lines 353-470)
pageSettle(call, o) ==
  LET id == call.id
      timerId == NewTimerId(pageTimers, processingTimeout, 0)
  IN
  /\ call \in pageInflight
  /\ call.doneAt <= now
  /\ pageInflight' = pageInflight \ {call}
  /\ processingTimeout' = timerId
  /\ IF o.kind = "429"
     THEN /\ processingQueue' = <<id>> \o processingQueue
          /\ pageTimers' = pageTimers \cup
               {PageTimer(timerId, now + o.retryAfter * 1000, call.rl)}
          /\ UNCHANGED <<queueStatus, pageRateLimit, analysisResults, retryCounts>>
     ELSE /\ pageTimers' = pageTimers \cup
               {PageTimer(timerId, now + nextDelay(call.rl), call.rl)}
          /\ IF o.kind = "ok"
             THEN /\ analysisResults' = setResult(analysisResults, id, "completed")
                  /\ queueStatus' = [queueStatus EXCEPT !.completedCount = @ + 1]
                  /\ pageRateLimit' =
                       [pageRateLimit EXCEPT
                          !.remaining = Max(0, pageRateLimit.remaining - 1),
                          !.requestsInLastMinute = @ + 1]
                  /\ UNCHANGED <<processingQueue, retryCounts>>
             ELSE IF shouldRetry(o) /\ id \notin retryCounts
             THEN /\ retryCounts' = retryCounts \cup {id}
                  /\ processingQueue' = requeue(processingQueue, id)
                  /\ UNCHANGED <<queueStatus, pageRateLimit, analysisResults>>
             ELSE /\ analysisResults' = setResult(analysisResults, id, "error")
                  /\ queueStatus' = [queueStatus EXCEPT !.errorCount = @ + 1]
                  /\ UNCHANGED <<processingQueue, pageRateLimit, retryCounts>>
  /\ UNCHANGED <<uploadedVideos, isAnalyzing, startRateLimit, pageDispatchLog,
                 pageQuiet, commands>>

\* A page timer fires: its callback is the processNextVideo that armed it
pageFire(t) ==
  /\ t \in pageTimers
  /\ t.due <= now
  /\ processNextVideo(t.rl, processingQueue, pageTimers \ {t}, processingTimeout,
                      queueStatus, isAnalyzing, analysisResults)
  /\ UNCHANGED <<uploadedVideos, retryCounts, startRateLimit, pageQuiet, commands>>

\* The queueStatus taken from storage as it was saved
restoreStatusAsSaved(status) == status

\* loadFromStorage, lines 165-173: the queueStatus taken from storage
restoreStatus(status) == [status EXCEPT !.isProcessing = FALSE, !.isPaused = FALSE]

\* The page is loaded again: the component is mounted anew (lines 49-92) and
\* its effect runs loadFromStorage (lines 148-193).  The state is in storage
\* as it was at the reload once analysisResults is non-empty (lines 207-212).
pageLoadFromStorage ==
  LET saved == \E i \in Ids : analysisResults[i] # "none"
      fresh == initializeState(pageRateLimit.maxRequestsPerMinute)
      restored == IF saved /\ pageRateLimit.resetTime > now THEN pageRateLimit ELSE fresh
  IN
  /\ commands < MaxCommands
  /\ commands' = commands + 1
  /\ uploadedVideos' = <<>>
  /\ processingQueue' = <<>>
  /\ processingTimeout' = 0
  /\ pageTimers' = {}
  /\ pageInflight' = {}
  /\ isAnalyzing' = FALSE
  /\ retryCounts' = {}
  /\ queueStatus' = IF saved THEN restoreStatus(queueStatus)
                    ELSE [position |-> 0, isProcessing |-> FALSE, isPaused |-> FALSE,
                          totalInQueue |-> 0, completedCount |-> 0, errorCount |-> 0]
  /\ pageRateLimit' = restored
  /\ startRateLimit' = restored
  /\ pageQuiet' = "no"
  /\ UNCHANGED <<analysisResults, pageDispatchLog>>

PageDues == {t.due : t \in pageTimers} \cup {c.doneAt : c \in pageInflight}

PageTick ==
  /\ PageDues # {}
  /\ \A d \in PageDues : d > now
  /\ now' = CHOOSE d \in PageDues : \A e \in PageDues : d <= e
  /\ UNCHANGED <<pageVars, commands>>

\* ------------------------------------------------------------------------
\* Classification of failures (errorHandling.ts, rateLimitQueue.ts)
\* ------------------------------------------------------------------------
NoReport == [at |-> -1, resetTime |-> 0, errorMessage |-> 60,
             userFriendlyMessage |-> 60, retryDelay |-> 60000, timerDelays |-> {}]

errVars == <<thrown, verdict, answer, reported>>

MsgInternal == <<"Internal", "server", "error">>

\* The words the messages are made of
Words == {"Internal", "server", "error", "network", "timeout", "Rate", "limit",
          "quota", "went", "wrong"}

Messages ==
  {<<w>> : w \in Words} \cup {<<v, w>> : v \in Words, w \in Words}
    \cup {MsgInternal, MsgAnalysis, MsgNetwork, MsgRateLimit}

\* What can be caught: an Error with its message, a string, another value
Thrown ==
  [kind : {"Error", "string"}, message : Messages]
    \cup {[kind |-> "other", message |-> <<"object">>]}

NoThrown == [kind |-> "none", message |-> <<>>]
NoVerdict == [type |-> "none", code |-> "none", retryable |-> FALSE,
              isRetryableError |-> FALSE]

\* The first-matching branch of classifyError for an Error (lines 113-146)
IncludesAny(message, keywords) ==
  \E k \in keywords : Includes(message, <<k>>)

classifyError(error) ==
  LET message == ToLowerCase(error.message) IN
  IF error.kind = "Error"
  THEN IF IncludesAny(message, {"network", "fetch", "timeout"})
       THEN [type |-> "network", code |-> "NETWORK_ERROR", retryable |-> TRUE]
       ELSE IF Includes(message, <<"rate", "limit">>) \/ IncludesAny(message, {"429"})
       THEN [type |-> "rate_limit", code |-> "RATE_LIMIT_EXCEEDED", retryable |-> TRUE]
       ELSE IF IncludesAny(message, {"api", "server", "500"})
       THEN [type |-> "api", code |-> "API_ERROR", retryable |-> TRUE]
       ELSE IF IncludesAny(message, {"upload", "file", "size"})
       THEN [type |-> "upload", code |-> "UPLOAD_ERROR", retryable |-> FALSE]
       ELSE IF IncludesAny(message, {"invalid", "validation", "format"})
       THEN [type |-> "validation", code |-> "VALIDATION_FAILED", retryable |-> FALSE]
       ELSE IF IncludesAny(message, {"processing", "analysis", "gemini"})
       THEN [type |-> "processing", code |-> "PROCESSING_ERROR", retryable |-> TRUE]
       ELSE [type |-> "api", code |-> "UNKNOWN_ERROR", retryable |-> TRUE]
  ELSE IF error.kind = "string"
  THEN [type |-> "api", code |-> "STRING_ERROR", retryable |-> FALSE]
  ELSE [type |-> "api", code |-> "UNKNOWN_ERROR", retryable |-> FALSE]

\* handleProcessingError, line 298: the message given to isRetryableError is
\* error.message for an Error and String(error) otherwise; the message field
\* holds that text for the three kinds
errorMessage(error) == error.message

\* ------------------------------------------------------------------------
\* POST /api/gemini/analyze-video (route.ts)
\* ------------------------------------------------------------------------
NoAnswer == [status |-> 0, code |-> "none", retryAfter |-> -1,
             rateLimitInfo |-> NoInfo]

\* What model.generateContent and the parsing of its text come to
GeminiOutcomes ==
  {[kind |-> "ok", message |-> <<>>],
   [kind |-> "Error", message |-> <<"quota", "exceeded">>],
   [kind |-> "Error", message |-> <<"Quota", "exceeded">>],
   [kind |-> "Error", message |-> <<"blocked", "by", "safety", "filters">>],
   [kind |-> "Error", message |-> <<"unsupported", "format">>],
   [kind |-> "Error", message |-> <<"Failed", "to", "parse", "structured", "output", "response">>],
   [kind |-> "other", message |-> <<"quota">>]}

GoodRequest == [apiKey |-> TRUE, body |-> "multipart", video |-> "ok",
                options |-> "ok", gemini |-> [kind |-> "ok", message |-> <<>>]]

\* The requests: each differs from a good one in one respect
Requests ==
  {[GoodRequest EXCEPT !.gemini = g] : g \in GeminiOutcomes}
    \cup {[GoodRequest EXCEPT !.apiKey = FALSE],
           [GoodRequest EXCEPT !.body = "malformed"],
           [GoodRequest EXCEPT !.video = "none"],
           [GoodRequest EXCEPT !.video = "too large"],
           [GoodRequest EXCEPT !.options = "not JSON"]}

\* message.includes(keyword): no change of case
MessageIncludes(message, keyword) ==
  \E i \in 1..Len(message) : WordIncludes(message[i], keyword)

\* The code given to a quota failure taken for rate limiting
errorCodeQuotaAsRateLimit(geminiError) ==
  IF geminiError.kind = "Error" /\ MessageIncludes(geminiError.message, "quota")
  THEN "RATE_LIMIT_EXCEEDED"
  ELSE "ANALYSIS_FAILED"

\* lines 357-371
errorCode(geminiError) ==
  IF geminiError.kind = "Error"
  THEN IF MessageIncludes(geminiError.message, "quota") THEN "QUOTA_EXCEEDED"
       ELSE IF MessageIncludes(geminiError.message, "safety") THEN "CONTENT_BLOCKED"
       ELSE IF MessageIncludes(geminiError.message, "unsupported") THEN "UNSUPPORTED_FORMAT"
       ELSE "ANALYSIS_FAILED"
  ELSE "ANALYSIS_FAILED"

\* rateLimitCheck.retryAfter || 60
retryAfterHeader(retryAfter) ==
  IF retryAfter \in {0, -1} THEN 60 ELSE retryAfter

\* The rateLimitInfo of the answers given without the limiter's result
defaultRateLimitInfo ==
  [remaining |-> RATE_LIMIT_PER_MINUTE, resetTime |-> now + 60000,
   requestsInLastMinute |-> 0, maxRequestsPerMinute |-> RATE_LIMIT_PER_MINUTE]

respond(status, code, retryAfter, info) ==
  [status |-> status, code |-> code, retryAfter |-> retryAfter,
   rateLimitInfo |-> info]

\* The handler, for one request
answerTo(request) ==
  IF ~request.apiKey
  THEN /\ answer' = respond(500, "MISSING_API_KEY", -1, defaultRateLimitInfo)
       /\ UNCHANGED limVars
  ELSE /\ checkRateLimit
       /\ LET rateLimitCheck == lastCheck'
              checkedInfo ==
                [remaining |-> rateLimitCheck.remaining,
                 resetTime |-> rateLimitCheck.resetTime,
                 requestsInLastMinute |-> rateLimitCheck.requestsInLastMinute,
                 maxRequestsPerMinute |-> RATE_LIMIT_PER_MINUTE]
          IN answer' =
               IF ~rateLimitCheck.allowed
               THEN respond(429, "RATE_LIMIT_EXCEEDED",
                            retryAfterHeader(rateLimitCheck.retryAfter),
                            checkedInfo)
               ELSE IF request.body = "malformed"
               THEN respond(500, "INTERNAL_ERROR", -1, defaultRateLimitInfo)
               ELSE IF request.video = "none"
               THEN respond(400, "MISSING_VIDEO_FILE", -1, checkedInfo)
               ELSE IF request.video = "too large"
               THEN respond(400, "FILE_TOO_LARGE", -1, checkedInfo)
               ELSE IF request.options = "not JSON"
               THEN respond(400, "INVALID_OPTIONS", -1, checkedInfo)
               ELSE IF request.gemini.kind = "ok"
               THEN respond(200, "none", -1, checkedInfo)
               ELSE respond(500, errorCode(request.gemini), -1, checkedInfo)

POST == \E request \in Requests : answerTo(request)

\* ------------------------------------------------------------------------
\* VideoAnalysisQueue calling the endpoint
\* ------------------------------------------------------------------------
\* error.message of an answer, by its code
responseMessage(code) ==
  CASE code = "MISSING_API_KEY" -> <<"Gemini", "API", "key", "is", "not", "configured">>
    [] code = "RATE_LIMIT_EXCEEDED" ->
         <<"Rate", "limit", "exceeded.", "Please", "wait", "before", "making",
           "another", "request.">>
    [] code = "FILE_TOO_LARGE" -> <<"Video", "file", "too", "large.">>
    [] code = "QUOTA_EXCEEDED" ->
         <<"API", "quota", "exceeded.", "Please", "try", "again", "later.">>
    [] code = "ANALYSIS_FAILED" -> MsgAnalysis
    [] code = "INTERNAL_ERROR" -> MsgInternal
    [] OTHER -> <<>>

\* response.json() as processVideoAnalysis reads it (lines 265-275)
apiResponse(a) ==
  [ok |-> a.status = 200, msg |-> responseMessage(a.code),
   rateLimitInfo |-> a.rateLimitInfo]

\* The requests VideoAnalysisQueue sends: a video and its options, always;
\* the server has its key or not, reads the body or fails to, and Gemini
\* answers or fails
ClientRequests ==
  {GoodRequest,
   [GoodRequest EXCEPT !.gemini = [kind |-> "Error", message |-> <<"quota", "exceeded">>]],
   [GoodRequest EXCEPT !.body = "malformed"],
   [GoodRequest EXCEPT !.apiKey = FALSE]}

\* A call of processVideoAnalysis is answered by the endpoint, and processNext
\* goes on with the answer
remoteCall(call) ==
  \E request \in ClientRequests :
     /\ answerTo(request)
     /\ settle(call, apiResponse(answer'))

\* The caller's record on the server when the queue is created: none, or the
\* one left by eight requests of the same address at that instant
InitClientLimiter ==
  \E n \in {0, RATE_LIMIT_PER_MINUTE - 2} :
     /\ rateLimitStore = IF n = 0 THEN NoData
                         ELSE [count |-> n, resetTime |-> RATE_LIMIT_WINDOW_MS,
                               requests |-> [i \in 1..n |-> 0]]
     /\ lastCheck = IF n = 0 THEN NoCheck
                    ELSE [at |-> 0, allowed |-> TRUE,
                          remaining |-> RATE_LIMIT_PER_MINUTE - n,
                          resetTime |-> RATE_LIMIT_WINDOW_MS,
                          requestsInLastMinute |-> n, retryAfter |-> -1]
     /\ recorded = [i \in 1..n |-> 0]

\* The instants at which the endpoint is called
RequestInstants == {30000, 60500, 400000}

\* Time passes between two requests
RequestTick ==
  /\ \E t \in RequestInstants : t > now /\ now' = t
  /\ UNCHANGED limVars

InitErrors ==
  /\ thrown = NoThrown
  /\ verdict = NoVerdict
  /\ answer = NoAnswer
  /\ reported = NoReport

\* A failure is caught and classified
classify ==
  \E error \in Thrown :
     /\ thrown' = error
     /\ verdict' = [type |-> classifyError(error).type,
                     code |-> classifyError(error).code,
                     retryable |-> classifyError(error).retryable,
                     isRetryableError |-> isRetryableError(errorMessage(error))]
     /\ UNCHANGED <<answer, reported>>

\* The reset instants a RateLimitError can carry in details.resetTime
\* (0: the error carries none)
ResetTimes == {0, 30000, 60500, 90000, 400000, 460000}

\* getErrorMessage, case RATE_LIMIT: the seconds the message tells to wait
getErrorMessage(resetTime) ==
  IF resetTime # 0 THEN CeilSeconds(resetTime - now) ELSE 60

\* getUserFriendlyMessage, case RATE_LIMIT: the seconds the action tells to wait
getUserFriendlyMessage(resetTime) ==
  IF resetTime # 0 THEN CeilSeconds(resetTime - now) ELSE 60

\* getRecoveryStrategy, case RATE_LIMIT: retryDelay
getRecoveryStrategy(resetTime) ==
  LET wait == IF resetTime # 0 THEN resetTime - now ELSE 60000
  IN  Max(wait, 1000)

\* The delays of the timers processNext arms when no request remains in a
\* window that resets at resetTime
rateLimitDelays(resetTime) ==
  LET rl == [resetTime |-> resetTime]
  IN  IF waitTime(rl) > 0 THEN {waitTime(rl)} ELSE {}

\* A RateLimitError that reports resetTime is shown to the user, and the
\* scheduler meets a window that reports the same resetTime
reportRateLimit ==
  \E resetTime \in ResetTimes :
     /\ reported' = [at |-> now, resetTime |-> resetTime,
                      errorMessage |-> getErrorMessage(resetTime),
                      userFriendlyMessage |-> getUserFriendlyMessage(resetTime),
                      retryDelay |-> getRecoveryStrategy(resetTime),
                      timerDelays |-> rateLimitDelays(resetTime)]
     /\ UNCHANGED <<thrown, verdict, answer>>

\* ------------------------------------------------------------------------
\* Specifications
\* ------------------------------------------------------------------------
vars == <<now, queueVars, histVars, limVars, pageVars, errVars>>

Init ==
  /\ now = 0
  /\ InitQueue
  /\ InitHistory
  /\ InitLimiter
  /\ InitPage
  /\ InitErrors

\* VideoAnalysisQueue with its timers and remote calls
Next ==
  \/ addToQueue /\ UNCHANGED <<limVars, pageVars, errVars>>
  \/ startProcessing /\ UNCHANGED <<limVars, pageVars, errVars>>
  \/ startProcessingNoop /\ UNCHANGED <<limVars, pageVars, errVars>>
  \/ pauseProcessing /\ UNCHANGED <<limVars, pageVars, errVars>>
  \/ resumeProcessing /\ UNCHANGED <<limVars, pageVars, errVars>>
  \/ resumeProcessingNoop /\ UNCHANGED <<limVars, pageVars, errVars>>
  \/ stopProcessing /\ UNCHANGED <<limVars, pageVars, errVars>>
  \/ \E c \in inflight : \E o \in Outcomes : settle(c, o) /\ UNCHANGED <<limVars, pageVars, errVars>>
  \/ \E t \in timers : fireProcessNext(t) /\ UNCHANGED <<limVars, pageVars, errVars>>
  \/ \E t \in timers : fireBackoff(t) /\ UNCHANGED <<limVars, pageVars, errVars>>
  \/ Tick /\ UNCHANGED <<limVars, pageVars, errVars>>

Spec == Init /\ [][Next]_vars

\* VideoAnalysisQueue left to run: started and never paused, resumed, stopped
\* or cleared.  Armed timers fire and every remote call settles.
NextLive ==
  \/ addToQueue /\ UNCHANGED <<limVars, pageVars, errVars>>
  \/ startProcessing /\ UNCHANGED <<limVars, pageVars, errVars>>
  \/ \E c \in inflight : \E o \in Outcomes : settle(c, o) /\ UNCHANGED <<limVars, pageVars, errVars>>
  \/ \E t \in timers : fireProcessNext(t) /\ UNCHANGED <<limVars, pageVars, errVars>>
  \/ \E t \in timers : fireBackoff(t) /\ UNCHANGED <<limVars, pageVars, errVars>>
  \/ Tick /\ UNCHANGED <<limVars, pageVars, errVars>>

SpecLive == Init /\ [][NextLive]_vars /\ WF_vars(NextLive)

\* VideoAnalysisQueue with start as its only command
NextStart ==
  \/ addToQueue /\ UNCHANGED <<limVars, pageVars, errVars>>
  \/ startProcessing /\ UNCHANGED <<limVars, pageVars, errVars>>
  \/ startProcessingNoop /\ UNCHANGED <<limVars, pageVars, errVars>>
  \/ \E c \in inflight : \E o \in Outcomes : settle(c, o) /\ UNCHANGED <<limVars, pageVars, errVars>>
  \/ \E t \in timers : fireProcessNext(t) /\ UNCHANGED <<limVars, pageVars, errVars>>
  \/ \E t \in timers : fireBackoff(t) /\ UNCHANGED <<limVars, pageVars, errVars>>
  \/ Tick /\ UNCHANGED <<limVars, pageVars, errVars>>

SpecStart == Init /\ [][NextStart]_vars

\* VideoAnalysisQueue used now and then: items are added and the queue is
\* started after the page was left alone for a while
NextIdle ==
  \/ addToQueue /\ UNCHANGED <<limVars, pageVars, errVars>>
  \/ startProcessing /\ UNCHANGED <<limVars, pageVars, errVars>>
  \/ \E c \in inflight : \E o \in Outcomes : settle(c, o) /\ UNCHANGED <<limVars, pageVars, errVars>>
  \/ \E t \in timers : fireProcessNext(t) /\ UNCHANGED <<limVars, pageVars, errVars>>
  \/ \E t \in timers : fireBackoff(t) /\ UNCHANGED <<limVars, pageVars, errVars>>
  \/ Tick /\ UNCHANGED <<limVars, pageVars, errVars>>
  \/ idle /\ UNCHANGED <<limVars, pageVars, errVars>>

SpecIdle == Init /\ [][NextIdle]_vars

\* VideoAnalysisQueue left to run against the endpoint
InitClient ==
  /\ now = 0
  /\ InitQueue
  /\ InitHistory
  /\ InitClientLimiter
  /\ InitPage
  /\ InitErrors

NextClient ==
  \/ addToQueue /\ UNCHANGED <<limVars, pageVars, errVars>>
  \/ startProcessing /\ UNCHANGED <<limVars, pageVars, errVars>>
  \/ \E c \in inflight : remoteCall(c) /\ UNCHANGED <<pageVars, thrown, verdict, reported>>
  \/ \E t \in timers : fireProcessNext(t) /\ UNCHANGED <<limVars, pageVars, errVars>>
  \/ \E t \in timers : fireBackoff(t) /\ UNCHANGED <<limVars, pageVars, errVars>>
  \/ Tick /\ UNCHANGED <<limVars, pageVars, errVars>>

SpecClient == InitClient /\ [][NextClient]_vars

\* The classification of failures, over the values that can be caught
NextClassify ==
  classify /\ UNCHANGED <<now, queueVars, histVars, limVars, pageVars>>

SpecClassify == Init /\ [][NextClassify]_vars

\* The endpoint under a sequence of requests at non-decreasing instants
NextEndpoint ==
  \/ POST /\ UNCHANGED <<now, queueVars, histVars, pageVars, thrown, verdict, reported>>
  \/ cleanupStore /\ UNCHANGED <<now, queueVars, histVars, pageVars, errVars>>
  \/ RequestTick /\ UNCHANGED <<queueVars, histVars, pageVars, errVars>>

SpecEndpoint == Init /\ [][NextEndpoint]_vars

\* VideoAnalysisQueue across page loads: the state is saved by the operations
\* and loaded by the constructor of the next instance
NextStore ==
  \/ Next
  \/ loadFromStorage /\ UNCHANGED <<limVars, pageVars, errVars>>

SpecStore == Init /\ [][NextStore]_vars

\* VideoAnalysisQueue with start, stop and clear as its commands
NextClear ==
  \/ addToQueue /\ UNCHANGED <<limVars, pageVars, errVars>>
  \/ startProcessing /\ UNCHANGED <<limVars, pageVars, errVars>>
  \/ stopProcessing /\ UNCHANGED <<limVars, pageVars, errVars>>
  \/ clearQueue /\ UNCHANGED <<limVars, pageVars, errVars>>
  \/ \E c \in inflight : \E o \in Outcomes : settle(c, o) /\ UNCHANGED <<limVars, pageVars, errVars>>
  \/ \E t \in timers : fireProcessNext(t) /\ UNCHANGED <<limVars, pageVars, errVars>>
  \/ \E t \in timers : fireBackoff(t) /\ UNCHANGED <<limVars, pageVars, errVars>>
  \/ Tick /\ UNCHANGED <<limVars, pageVars, errVars>>

SpecClear == Init /\ [][NextClear]_vars

\* VideoAnalysisQueue with requests enqueued one by one and in batches
NextBatch ==
  \/ Next
  \/ addMultipleToQueue /\ UNCHANGED <<limVars, pageVars, errVars>>

SpecBatch == Init /\ [][NextBatch]_vars

\* VideoAnalysisQueue with the operations on single items
NextEdit ==
  \/ Next
  \/ \E id \in Ids : removeFromQueue(id) /\ UNCHANGED <<limVars, pageVars, errVars>>
  \/ \E id \in Ids : retryFailedItem(id) /\ UNCHANGED <<limVars, pageVars, errVars>>

SpecEdit == Init /\ [][NextEdit]_vars

\* The server's limiter under a sequence of checks at non-decreasing instants
NextLimiter ==
  \/ checkRateLimit /\ UNCHANGED <<now, queueVars, histVars, pageVars, errVars>>
  \/ cleanupStore /\ UNCHANGED <<now, queueVars, histVars, pageVars, errVars>>
  \/ LimiterTick /\ UNCHANGED <<queueVars, histVars, pageVars, errVars>>

SpecLimiter == Init /\ [][NextLimiter]_vars

\* The waits derived from a reported resetTime, read at any later instant
NextWait ==
  \/ reportRateLimit /\ UNCHANGED <<now, queueVars, histVars, limVars, pageVars>>
  \/ LimiterTick /\ UNCHANGED <<queueVars, histVars, pageVars, errVars>>

SpecWait == Init /\ [][NextWait]_vars

pageRest == <<queueVars, limVars, stoppedCalls, pauseRun, removed, cleared, errVars>>

\* The page-level loop with its timers and remote calls
NextPage ==
  \/ handleVideosChange /\ UNCHANGED <<now, pageRest>>
  \/ startAnalysis /\ UNCHANGED <<now, pageRest>>
  \/ pagePauseProcessing /\ UNCHANGED <<now, pageRest>>
  \/ pageResumeProcessing /\ UNCHANGED <<now, pageRest>>
  \/ pageStopProcessing /\ UNCHANGED <<now, pageRest>>
  \/ \E c \in pageInflight : \E o \in PageOutcomes : pageSettle(c, o) /\ UNCHANGED <<now, pageRest>>
  \/ \E t \in pageTimers : pageFire(t) /\ UNCHANGED <<now, pageRest>>
  \/ PageTick /\ UNCHANGED pageRest

SpecPage == Init /\ [][NextPage]_vars

\* Nothing was done with the VideoAnalysisQueue object yet
QueueUnused == nextId = 1 /\ lastProgress = NoProgress

\* Nothing was done on the page yet
PageUnused == uploadedVideos = <<>> /\ pageDispatchLog = <<>>

\* VideoAnalysisQueue across page loads, with start and pause, and with
\* resume called on a queue that is not processing
NextQueueReload ==
  \/ addToQueue /\ UNCHANGED <<limVars, pageVars, errVars>>
  \/ startProcessing /\ UNCHANGED <<limVars, pageVars, errVars>>
  \/ pauseProcessing /\ UNCHANGED <<limVars, pageVars, errVars>>
  \/ resumeProcessingNoop /\ UNCHANGED <<limVars, pageVars, errVars>>
  \/ \E c \in inflight : \E o \in Outcomes : settle(c, o) /\ UNCHANGED <<limVars, pageVars, errVars>>
  \/ \E t \in timers : fireProcessNext(t) /\ UNCHANGED <<limVars, pageVars, errVars>>
  \/ \E t \in timers : fireBackoff(t) /\ UNCHANGED <<limVars, pageVars, errVars>>
  \/ Tick /\ UNCHANGED <<limVars, pageVars, errVars>>
  \/ loadFromStorage /\ UNCHANGED <<limVars, pageVars, errVars>>

\* The page-level loop across page loads, with start, pause and resume
NextPageReload ==
  \/ handleVideosChange /\ UNCHANGED <<now, pageRest>>
  \/ startAnalysis /\ UNCHANGED <<now, pageRest>>
  \/ pagePauseProcessing /\ UNCHANGED <<now, pageRest>>
  \/ pageResumeProcessing /\ UNCHANGED <<now, pageRest>>
  \/ \E c \in pageInflight : \E o \in PageOutcomes : pageSettle(c, o) /\ UNCHANGED <<now, pageRest>>
  \/ \E t \in pageTimers : pageFire(t) /\ UNCHANGED <<now, pageRest>>
  \/ PageTick /\ UNCHANGED pageRest
  \/ pageLoadFromStorage /\ UNCHANGED <<now, pageRest>>

\* Either scheduler across page loads: the application runs the page-level
\* loop, the VideoAnalysisQueue object is the library's scheduler
NextReload ==
  \/ PageUnused /\ NextQueueReload
  \/ QueueUnused /\ NextPageReload

SpecReload == Init /\ [][NextReload]_vars

\* ------------------------------------------------------------------------
\* Properties of VideoAnalysisQueue
\* ------------------------------------------------------------------------
CeilDiv(a, b) == (a + b - 1) \div b

DispatchesOf(id) == Cardinality({k \in 1..Len(dispatchLog) : dispatchLog[k] = id})

AlwaysRetryable(id) ==
  /\ attempts[id] # <<>>
  /\ \A k \in 1..Len(attempts[id]) : attempts[id][k] = "retryable"

\* The dispatch loops that are live: armed dispatch timers and calls in flight
LiveLoops ==
  Cardinality({t \in timers : t.kind \in {"processing", "rateLimit"}})
    + Cardinality(inflight)

\* C2: over T seconds of a run with ceiling C the queue dispatches at most
\* C * ceil(T/60) remote calls (T is at least the time elapsed so far).
C2_NoDispatchAboveCeiling ==
  Len(dispatchLog) <=
    rateLimitInfo.maxRequestsPerMinute * Max(1, CeilDiv(now, WINDOW_MS))

\* C3: an item all of whose calls failed with a retryable error and that got
\* its error result was dispatched 1 + MAX_RETRIES times and got one result.
C3_RetriedMaxRetriesTimes ==
  \A id \in Ids :
     (AlwaysRetryable(id) /\ results[id].error >= 1)
       => (DispatchesOf(id) = 1 + MAX_RETRIES /\ results[id].error = 1)

\* C4: when a call that was in flight at a stop settles, the statistics are
\* unchanged, no result is emitted and the queue does not start running.
C4_StopDiscardsLateResults ==
  [][\A c \in inflight :
       (c.item.id \in stoppedCalls /\ c \notin inflight')
         => (statistics' = statistics /\ results' = results
             /\ isProcessing' = isProcessing)]_vars

\* C6: at most one remote call is in flight and at most one dispatch loop
\* (armed dispatch timer or call in flight) is live.
C6_SingleDispatchLoop ==
  Cardinality(inflight) <= 1 /\ LiveLoops <= 1

\* C9: a stop issued while processing leaves no pending item, no armed timer
\* and both flags false.
C9_StopLeavesNothingPending ==
  [][(isProcessing /\ stopProcessing)
       => (items' = <<>> /\ timers' = {} /\ ~isProcessing' /\ ~isPaused')]_vars

Observable ==
  <<getQueueStatus, items, timers, processingTimer, rateLimitTimer,
    rateLimitInfo, statistics, inflight, results>>

\* C10: a pause that directly follows a pause changes nothing observable
\* (queue status, pending list, timers, rate-limit info, statistics).
C10_PauseIdempotent ==
  [][(pauseRun >= 1 /\ pauseRun' = 2) => Observable' = Observable]_vars

\* C10 witness: two pauses in a row on a running queue with a call in flight
C10_Witness ==
  pauseRun = 2 /\ isProcessing /\ isPaused /\ inflight # {}

C12_ExpiredSnapshotNotRestored ==
  [][(loadFromStorage /\ storage.rateLimitInfo.resetTime < now)
       => rateLimitInfo' = initializeState(DEFAULT_RATE_LIMIT_PER_MINUTE)]_vars

\* The run of the example: ceiling 1, the queue started (the only command
\* made, after which a dispatch took place) and every settled call a success
ExampleRun ==
  /\ commands = 1
  /\ dispatchLog # <<>>
  /\ rateLimitInfo.maxRequestsPerMinute = 1
  /\ \A id \in Ids : \A k \in 1..Len(attempts[id]) : attempts[id][k] = "ok"

\* C13: with ceiling 1, the queue started at t = 0 and every call a success,
\* the items are dispatched in the order 1, 2, 3, the second not before 60 s,
\* the third not before 120 s, and completedCount is 3 at the end.
C13_ExampleScenario ==
  ExampleRun =>
    /\ \A k \in 1..Len(dispatchLog) : dispatchLog[k] = k
    /\ Len(dispatchLog) >= 2 => now >= WINDOW_MS
    /\ Len(dispatchLog) >= 3 => now >= 2 * WINDOW_MS
    /\ (nextId = 4 /\ ~isProcessing /\ items = <<>> /\ inflight = {})
         => getQueueStatus.completedCount = 3

\* C13 witness: the end of the example run, three items completed, idle
C13_Witness ==
  /\ ExampleRun
  /\ dispatchLog = <<1, 2, 3>>
  /\ now >= 2 * WINDOW_MS
  /\ ~isProcessing /\ items = <<>> /\ inflight = {}
  /\ getQueueStatus.completedCount = 3

\* C14: an item given to removeFromQueue is not pending afterwards and is
\* never dispatched again.
C14_RemovedNeverDispatched ==
  [][\A id \in removed' :
       /\ \A k \in 1..Len(items') : items'[k].id # id
       /\ id \in removed => DispatchesOf(id)' = DispatchesOf(id)]_vars

\* C15: retryFailedItem on an item that got its error result puts it back with
\* retryCount 0: it is pending, or already dispatched again when the queue
\* was idle.
C15_RetryReset ==
  [][\A id \in Ids :
       (retryFailedItem(id) /\ results[id].error >= 1)
         => \/ \E k \in 1..Len(items') :
                 items'[k].id = id /\ items'[k].retryCount = 0
            \/ \E c \in inflight' \ inflight :
                 c.item.id = id /\ c.item.retryCount = 0]_vars

\* C16: whenever control is back in the event loop, the QueueStatus last
\* handed to the progress callback is the current getQueueStatus().
C16_ProgressNotified ==
  lastProgress # NoProgress => lastProgress = getQueueStatus

\* C17: while the queue is processing, position is the number of pending
\* items plus one when a remote call is in flight.
C17_PositionCountsInFlight ==
  isProcessing =>
    getQueueStatus.position = Len(items) + (IF inflight # {} THEN 1 ELSE 0)

\* The queue is back to Idle with nothing left: every item enqueued so far has
\* its one terminal result and the progress callback has seen the final status
QueueDone ==
  /\ ~isProcessing /\ items = <<>> /\ inflight = {}
  /\ \A id \in 1..(nextId - 1) : results[id].completed + results[id].error = 1
  /\ lastProgress = getQueueStatus

\* The model dispatches no more than MaxDispatch calls: an item is left waiting
\* for a dispatch beyond that
DispatchBudgetSpent ==
  /\ Len(dispatchLog) >= MaxDispatch
  /\ items # <<>> \/ \E t \in timers : t.kind = "backoff"

\* C18: a started queue that is left to run, with every call settling,
\* eventually is Idle again with an empty pending list and a terminal result
\* for every item (as far as the dispatches of the model go).
C18_CompletionLiveness ==
  isProcessing ~> (QueueDone \/ DispatchBudgetSpent)

\* C18 witness: the queue is Idle again after two items, both completed, one
\* of them after a retryable failure and its backoff
C18_Witness ==
  /\ QueueDone
  /\ nextId = 3
  /\ \A id \in 1..2 : results[id].completed = 1
  /\ \E id \in 1..2 : attempts[id] = <<"retryable", "ok">>

\* A successful answer has just been handled
SuccessHandled ==
  /\ answer.status = 200
  /\ lastCheck.at = now
  /\ \E t \in timers : /\ t.id = processingTimer
                       /\ t.kind = "processing"
                       /\ t.due = now + PROCESSING_DELAY

\* C21: after a successful answer that carries a rateLimitInfo is handled, the
\* queue's rateLimitInfo equals that snapshot, with no further local decrement.
C21_SnapshotAdopted ==
  (SuccessHandled /\ answer.rateLimitInfo # NoInfo) =>
     rateLimitInfo = answer.rateLimitInfo

RemainingConsistent(remaining, requestsInLastMinute, maxRequestsPerMinute) ==
  /\ remaining = IF maxRequestsPerMinute - requestsInLastMinute > 0
                 THEN maxRequestsPerMinute - requestsInLastMinute ELSE 0
  /\ 0 <= remaining
  /\ remaining <= maxRequestsPerMinute

\* C22: the queue's rateLimitInfo and every answer of checkRateLimit satisfy
\* remaining = max(0, maxRequestsPerMinute - requestsInLastMinute), hence
\* 0 <= remaining <= maxRequestsPerMinute.
C22_RemainingInvariant ==
  /\ RemainingConsistent(rateLimitInfo.remaining, rateLimitInfo.requestsInLastMinute,
                         rateLimitInfo.maxRequestsPerMinute)
  /\ lastCheck # NoCheck =>
        RemainingConsistent(lastCheck.remaining, lastCheck.requestsInLastMinute,
                            RATE_LIMIT_PER_MINUTE)

\* The queue has just reset its window locally and dispatched, after an answer
\* of checkRateLimit that left nothing
C22_Witness ==
  /\ now > 0
  /\ rateLimitInfo.resetTime = now + WINDOW_MS
  /\ rateLimitInfo.requestsInLastMinute = 0
  /\ rateLimitInfo.remaining = rateLimitInfo.maxRequestsPerMinute
  /\ inflight # {}
  /\ lastCheck.at > 0
  /\ lastCheck.allowed
  /\ lastCheck.remaining = 0

\* C23: a dispatch decided at a time now > resetTime is preceded by the reset
\* of the local counters (requestsInLastMinute 0, remaining the ceiling,
\* resetTime now + 60 s), whatever remaining was.
C23_WindowResetBeforeDispatch ==
  [][(dispatchLog' # dispatchLog /\ now > rateLimitInfo.resetTime) =>
        rateLimitInfo' =
          [remaining |-> rateLimitInfo.maxRequestsPerMinute,
           resetTime |-> now + 60000,
           requestsInLastMinute |-> 0,
           maxRequestsPerMinute |-> rateLimitInfo.maxRequestsPerMinute]]_vars

C25_ExponentialBackoff ==
  [][/\ \A t \in timers' \ timers :
          t.kind = "backoff" =>
            /\ t.item.retryCount \in {1, 2}
            /\ t.due = now + (IF t.item.retryCount = 1 THEN 2000 ELSE 4000)
     /\ \A t \in timers' :
          t.kind = "backoff" =>
            /\ \A j \in 1..Len(items') : items'[j].id # t.item.id
            /\ \A c \in inflight' : c.item.id # t.item.id
     /\ \A t \in timers \ timers' :
          t.kind = "backoff" =>
            /\ now = t.due
            /\ items' # <<>>
            /\ Head(items') = t.item]_vars

\* An item has just failed retryably for the second time
C25_Witness ==
  \E t \in timers :
     /\ t.kind = "backoff"
     /\ t.item.retryCount = 2
     /\ t.due = now + 4000
     /\ attempts[t.item.id] = <<"retryable", "retryable">>

\* C26: after an answer 429 with retryAfter r, the refused item is not given
\* up: it is the next one dispatched, and not before r seconds have elapsed
\* since the answer.
C26_RetryAfterHonoured ==
  (answer.status = 429 /\ dispatchLog # <<>>) =>
     /\ inflight = {} => results[dispatchLog[Len(dispatchLog)]].error = 0
     /\ \A c \in inflight :
          /\ Len(dispatchLog) >= 2
          /\ c.item.id = dispatchLog[Len(dispatchLog) - 1]
          /\ \E d \in CallDurations :
                c.doneAt - d >= lastCheck.at + answer.retryAfter * 1000

\* C27: when a dispatched call has settled, the next iteration of the loop is
\* scheduled max(1 s, 60 s / maxRequestsPerMinute) later.
C27_PacingDelay ==
  [][\A t \in timers' \ timers :
        t.kind = "processing" =>
          t.due = now + (IF 60000 \div rateLimitInfo'.maxRequestsPerMinute > 1000
                         THEN 60000 \div rateLimitInfo'.maxRequestsPerMinute
                         ELSE 1000)]_vars

\* C28: a failed attempt ends in exactly one of a requeue (a backoff for the
\* item with retryCount one higher, no result, statistics unchanged; taken for
\* a retryable failure short of maxRetries) and a terminal outcome (one result
\* with status error, errorCount and totalProcessed one higher); the loop
\* schedules its next iteration; an item with an error result is never
\* pending, in backoff or dispatched again.
C28_FailureDichotomy ==
  [][/\ \A c \in inflight \ inflight' :
          LET i == c.item.id
              failed == /\ attempts'[i] # attempts[i]
                        /\ attempts'[i][Len(attempts'[i])] # "ok"
              requeued == \E t \in timers' \ timers :
                             /\ t.kind = "backoff"
                             /\ t.item = [id |-> i, retryCount |-> c.item.retryCount + 1]
              terminal == results'[i].error = results[i].error + 1
          IN failed =>
               /\ requeued # terminal
               /\ requeued <=> /\ attempts'[i][Len(attempts'[i])] = "retryable"
                                /\ c.item.retryCount + 1 < 3
               /\ requeued => results' = results /\ statistics' = statistics
               /\ terminal =>
                    /\ results' = [results EXCEPT ![i].error = @ + 1]
                    /\ statistics' = [statistics EXCEPT !.errorCount = @ + 1,
                                                        !.totalProcessed = @ + 1]
               /\ \E t \in timers' \ timers :
                     t.kind = "processing" /\ t.id = processingTimer'
     /\ \A i \in Ids :
          results'[i].error > 0 =>
            /\ \A j \in 1..Len(items') : items'[j].id # i
            /\ \A c \in inflight' : c.item.id # i
            /\ \A t \in timers' : t.item.id # i]_vars

\* One item waits in backoff after its second retryable failure, another has
\* got its error result after a failure that is not retryable
C28_Witness ==
  \E i, j \in Ids :
     /\ attempts[i] = <<"retryable", "retryable">>
     /\ results[i].error = 0
     /\ \E t \in timers : t.kind = "backoff" /\ t.item.id = i
     /\ attempts[j] = <<"terminal">>
     /\ results[j].error = 1
     /\ statistics.errorCount = 1

\* C29: start on a queue that is processing changes nothing; start on an idle
\* queue with no pending item leaves it idle and dispatches nothing; start on
\* an idle queue with a pending item makes it processing; and the queue
\* becomes processing in no other way.
C29_StartTransition ==
  [][/\ commands' # commands =>
          IF isProcessing
          THEN queueVars' = queueVars
          ELSE IF items = <<>>
          THEN ~isProcessing' /\ dispatchLog' = dispatchLog /\ inflight' = inflight
          ELSE isProcessing'
     /\ (~isProcessing /\ isProcessing') =>
          (commands' # commands /\ items # <<>>)]_vars

\* start on the empty queue, then on the queue with an item, then once more
C29_Witness ==
  /\ commands = 3
  /\ now = 0
  /\ nextId = 2
  /\ isProcessing
  /\ dispatchLog = <<1>>
  /\ inflight # {}

\* C31: a wait derived from a reported resetTime is never negative: neither
\* the delay of a timer the scheduler arms, nor retryDelay, nor the seconds
\* getErrorMessage and getUserFriendlyMessage tell the user to wait.
C31_NoNegativeWait ==
  /\ \A d \in reported.timerDelays : d >= 0
  /\ reported.retryDelay >= 0
  /\ reported.errorMessage >= 0
  /\ reported.userFriendlyMessage >= 0

ResultsOf(id) == results[id].completed + results[id].error

\* C33: every enqueued item gets at most one terminal result (completed or
\* error), and a result is emitted only for an item that was dispatched.
C33_AtMostOneResult ==
  \A id \in Ids :
     /\ ResultsOf(id) <= 1
     /\ ResultsOf(id) >= 1 => DispatchesOf(id) >= 1

\* An item got its error result after a retry and another item its completed
\* result, in a run with two commands or more.
C33_Witness ==
  \E id, other \in Ids :
     /\ results[id].error = 1 /\ DispatchesOf(id) >= 2
     /\ results[other].completed = 1
     /\ commands >= 2

\* C35: isPaused holds only while isProcessing holds.
C35_PausedImpliesProcessing ==
  isPaused => isProcessing

\* C36: from the return of clearQueue until the next addToQueue or
\* startProcessing call the pending list is empty, the statistics are zero,
\* and isProcessing and isPaused are false.
C36_ClearIsFinal ==
  cleared =>
    /\ items = <<>>
    /\ statistics = [totalProcessed |-> 0, successCount |-> 0, errorCount |-> 0]
    /\ ~isProcessing /\ ~isPaused

CountersGrow ==
  /\ statistics'.totalProcessed >= statistics.totalProcessed
  /\ statistics'.successCount >= statistics.successCount
  /\ statistics'.errorCount >= statistics.errorCount

\* C37: totalProcessed = successCount + errorCount in every state, and no
\* step other than clearQueue makes a counter smaller.
C37_StatisticsConsistent ==
  /\ [](statistics.totalProcessed = statistics.successCount + statistics.errorCount)
  /\ [][clearQueue \/ CountersGrow]_vars

\* One success and one error were counted after a clearQueue that had reset
\* the count of an earlier result.
C37_Witness ==
  /\ statistics = [totalProcessed |-> 2, successCount |-> 1, errorCount |-> 1]
  /\ Cardinality({id \in Ids : ResultsOf(id) = 1}) = 3

\* The queue is idle: not processing, not paused, nothing pending, no timer
\* armed and no call awaited
Idle ==
  /\ ~isProcessing /\ ~isPaused /\ items = <<>>
  /\ timers = {} /\ inflight = {}

\* The queue is at rest: not processing, no timer armed, no call awaited
AtRest == ~isProcessing /\ timers = {} /\ inflight = {}

PageIdle ==
  /\ ~queueStatus.isProcessing /\ ~queueStatus.isPaused /\ ~isAnalyzing
  /\ processingQueue = <<>> /\ pageTimers = {} /\ pageInflight = {}

PageAtRest == processingQueue = <<>> /\ pageTimers = {} /\ pageInflight = {}

\* C39: after a page load the VideoAnalysisQueue is idle, and so is the page
\* after its loadFromStorage; from a state at rest, as the one a page load
\* leaves, nothing is dispatched and nothing is armed by any step other than
\* a start made with a pending item, and only an enqueue makes an item pending.
C39_ReloadNeverResumes ==
  /\ [][loadFromStorage => Idle']_vars
  /\ [][(AtRest /\ (dispatchLog' # dispatchLog \/ ~AtRest'))
          => (startProcessing /\ items # <<>>)]_vars
  /\ [][(AtRest /\ Len(items') > Len(items)) => addToQueue]_vars
  /\ [][pageLoadFromStorage => PageIdle']_vars
  /\ [][(PageAtRest /\ (pageDispatchLog' # pageDispatchLog \/ ~PageAtRest'))
          => (startAnalysis /\ uploadedVideos # <<>>)]_vars

\* The page was loaded while the queue was processing and paused with an
\* item pending and another one dispatched: this state is still in storage
\* and the new queue is idle.
C39_Witness ==
  /\ Idle
  /\ storage.isProcessing /\ storage.isPaused /\ storage.items # <<>>
  /\ dispatchLog # <<>>

NoFailure ==
  \A id \in Ids : \A k \in 1..Len(attempts[id]) : attempts[id][k] = "ok"

\* C32: as long as no attempt failed and no item was removed, the items
\* dispatched so far followed by the pending ones are the enqueued items in
\* the order of their enqueue (ids are handed out in that order): the queue
\* dispatches first in, first out.
C32_FifoDispatch ==
  (NoFailure /\ removed = {})
    => dispatchLog \o [k \in 1..Len(items) |-> items[k].id]
         = [k \in 1..(nextId - 1) |-> k]

\* Items 1 and 2 were dispatched in this order and item 3 was enqueued while
\* the call of item 2 was in flight (the state saved last holds item 3 alone
\* and one processed item).
C32_Witness ==
  /\ NoFailure
  /\ isProcessing /\ ~isPaused
  /\ dispatchLog = <<1, 2>>
  /\ \E c \in inflight : c.item.id = 2
  /\ items = <<[id |-> 3, retryCount |-> 0]>>
  /\ storage.items = items
  /\ storage.statistics.totalProcessed = 1

\* The patterns classifyError and isRetryableError look for
KnownPatterns ==
  {<<k>> : k \in {"network", "fetch", "timeout", "429", "api", "server", "500",
                   "upload", "file", "size", "invalid", "validation", "format",
                   "processing", "analysis", "gemini"}}
    \cup RetryableErrors

\* A failure of no known transient category: a value that is not an Error, the
\* server's 'Internal server error', an Error with an unrecognised message
UnknownFailure(error) ==
  \/ error.kind \in {"string", "other"}
  \/ error.kind = "Error" /\ error.message = MsgInternal
  \/ error.kind = "Error"
       /\ \A pattern \in KnownPatterns :
             ~Includes(ToLowerCase(error.message), pattern)

\* C19: a failure of no known transient category is classified as not
\* retryable by classifyError and by isRetryableError.
C19_UnknownNotRetryable ==
  UnknownFailure(thrown) => (~verdict.retryable /\ ~verdict.isRetryableError)

ValidationCodes == {"MISSING_VIDEO_FILE", "FILE_TOO_LARGE", "INVALID_OPTIONS"}
ServerCodes == {"MISSING_API_KEY", "QUOTA_EXCEEDED", "CONTENT_BLOCKED",
                "UNSUPPORTED_FORMAT", "ANALYSIS_FAILED", "INTERNAL_ERROR"}

RecordedInWindow(t, upto) ==
  Cardinality({k \in 1..(upto - 1) :
                 recorded[k] > t - 60000 /\ recorded[k] <= t})

ChecksBefore == IF lastCheck.allowed THEN Len(recorded) ELSE Len(recorded) + 1

\* C1: a check at time t is denied iff the checks recorded in (t - 60 s, t]
\* before it number at least the ceiling; with ten checks recorded at t = 0
\* the next check at t = 0 is denied with retryAfter = 60.
C1_SlidingWindow ==
  lastCheck # NoCheck =>
    /\ ~lastCheck.allowed
         <=> RecordedInWindow(lastCheck.at, ChecksBefore) >= RATE_LIMIT_PER_MINUTE
    /\ (~lastCheck.allowed /\ lastCheck.at = 0) => lastCheck.retryAfter = 60

\* C1 witness: the eleventh check at t = 0 is denied with retryAfter = 60
C1_Witness ==
  /\ Len(recorded) = 10
  /\ \A k \in 1..10 : recorded[k] = 0
  /\ lastCheck.at = 0 /\ ~lastCheck.allowed /\ lastCheck.retryAfter = 60

\* The allowed checks still in the window of the latest check
InWindow == {k \in 1..Len(recorded) : recorded[k] > lastCheck.at - 60000}

\* C30: a denied check carries a retryAfter between 1 and 60, the number of
\* seconds, rounded up, until the oldest timestamp of the window ages out (60
\* when the window holds none).
C30_RetryAfterDefined ==
  (lastCheck # NoCheck /\ ~lastCheck.allowed) =>
     /\ lastCheck.retryAfter \in 1..60
     /\ IF InWindow = {}
        THEN lastCheck.retryAfter = 60
        ELSE LET oldest == recorded[CHOOSE k \in InWindow : \A j \in InWindow : k <= j]
                 ms == oldest + 60000 - lastCheck.at
             IN /\ lastCheck.retryAfter * 1000 >= ms
                /\ (lastCheck.retryAfter - 1) * 1000 < ms

\* Ten checks at t = 500 and a check at t = 60000, denied for one more second
C30_Witness ==
  /\ ~lastCheck.allowed
  /\ lastCheck.at = 60000
  /\ lastCheck.retryAfter = 1
  /\ Len(recorded) = 10
  /\ \A k \in 1..10 : recorded[k] = 500

\* The timestamps of the record that lie in the window that ends at instant t
InWindowAt(requests, t) == filterRequests(requests, t - RATE_LIMIT_WINDOW_MS)

\* The earliest instant from t on at which a call is allowed, given the record
AllowedAt(requests, t) ==
  LET in == InWindowAt(requests, t)
  IN  IF Len(in) < RATE_LIMIT_PER_MINUTE
      THEN t
      ELSE in[Len(in) - RATE_LIMIT_PER_MINUTE + 1] + RATE_LIMIT_WINDOW_MS

\* C38: the record never holds more timestamps than the ceiling; a denied
\* call leaves the in-window timestamps of the record as they were, appends
\* nothing and does not move the instant at which the next call is allowed;
\* a call that appends a timestamp is an allowed one.
C38_DeniedConsumesNoQuota ==
  /\ [](Len(rateLimitStore.requests) <= RATE_LIMIT_PER_MINUTE)
  /\ [][(checkRateLimit /\ ~lastCheck'.allowed)
          => /\ rateLimitStore'.requests = InWindowAt(rateLimitStore.requests, now)
             /\ recorded' = recorded
             /\ AllowedAt(rateLimitStore'.requests, now)
                  = AllowedAt(rateLimitStore.requests, now)]_vars
  /\ [][(checkRateLimit
          /\ Len(rateLimitStore'.requests) > Len(InWindowAt(rateLimitStore.requests, now)))
          => lastCheck'.allowed]_vars

\* A call is denied with the ceiling of timestamps in the window; the call
\* has refreshed resetTime and the next call is allowed only later.
C38_Witness ==
  /\ lastCheck.at = now /\ ~lastCheck.allowed
  /\ lastCheck.resetTime = now + RATE_LIMIT_WINDOW_MS
  /\ Len(rateLimitStore.requests) = RATE_LIMIT_PER_MINUTE
  /\ AllowedAt(rateLimitStore.requests, now) > now

\* ------------------------------------------------------------------------
\* Properties of the page-level loop
\* ------------------------------------------------------------------------
\* C5: after stop no video is sent to the remote endpoint until the next
\* start, resume or retry command.
C5_NoDispatchAfterStop ==
  [][(pageQuiet = "stopped" /\ pageQuiet' = "stopped")
       => pageDispatchLog' = pageDispatchLog]_vars

\* C7: pause cancels the pending dispatch timer, no video is dispatched while
\* paused, and a call in flight at the pause still has its result applied.
C7_PauseSuppressesDispatch ==
  [][/\ (pageQuiet = "paused" /\ pageQuiet' = "paused")
          => pageDispatchLog' = pageDispatchLog
     /\ (pageQuiet # "paused" /\ pageQuiet' = "paused")
          => (processingTimeout' = 0
              /\ \A t \in pageTimers' : t.id # processingTimeout)
     /\ \A c \in pageInflight :
          (pageQuiet = "paused" /\ c \notin pageInflight'
             /\ analysisResults[c.id] = "processing" /\ processingQueue' = processingQueue)
            => analysisResults'[c.id] \in {"completed", "error"}]_vars

\* C8: a video whose call fails retryably goes back to the head of the pending
\* list, so it is the next one dispatched.
C8_HeadReinsertion ==
  [][\A c \in pageInflight :
       (c \notin pageInflight' /\ Len(processingQueue') = Len(processingQueue) + 1)
         => Head(processingQueue') = c.id]_vars

\* The same three statements about VideoAnalysisQueue
QueueNoDispatchWhileStopped ==
  [][(~isProcessing /\ ~isProcessing') => dispatchLog' = dispatchLog]_vars

QueueNoDispatchWhilePaused ==
  [][(isPaused /\ isPaused') => dispatchLog' = dispatchLog]_vars

QueueHeadReinsertion ==
  [][\A t \in timers :
       (t.kind = "backoff" /\ t \notin timers' /\ Len(items') = Len(items) + 1)
         => Head(items') = t.item]_vars


PageDispatchesOf(id) ==
  Cardinality({k \in 1..Len(pageDispatchLog) : pageDispatchLog[k] = id})

\* C34: the attempts made for one video are bounded whatever the answers:
\* within one run (one Analyze command, nothing else) a video is sent to the
\* endpoint at most twice, once plus the single retry the page allows.
C34_BoundedAttempts ==
  commands <= 1 => \A id \in Ids : PageDispatchesOf(id) <= 2

====
